---- MODULE Spec2Model ----
(***************************************************************************)
(* Model of the caption pipeline of the MemoryStream backend:              *)
(*   - OptimizedWhisperService (backend/src/services/                      *)
(*     ContentRecognitionService.js, second class of the file): sessions,  *)
(*     chunk conversion, the processing queue, batches, the subtitles      *)
(*     timeline and the temporary files;                                   *)
(*   - the 'subtitle:request' socket handler of backend/src/index.js with  *)
(*     its subtitleQueue gate.                                             *)
(* Every asynchronous callback of the code is one action; code that runs   *)
(* synchronously (or in microtasks only) after it belongs to that action.  *)
(***************************************************************************)
EXTENDS Integers, Sequences, FiniteSets, TLC

\* ------------------------------------------------------------ bounds
MaxInits == 2          \* initSession calls over a run
MaxChunks == 2         \* accepted processAudioChunk calls over a run
MaxConversions == 2    \* convertAudioToWav calls pending at the same time
MaxNow == 1            \* largest value of the millisecond clock

\* ------------------------------------------------------------ inputs
SessionIds == {"s1", "s2"}

\* options.x || default: an absent (or zero) option is written 0
DefaultChunkDuration == 10
DefaultBatchSize == 3
DefaultMaxWorkers == 2

NoOptions == [chunkDuration |-> 0, batchSize |-> 0, maxWorkers |-> 0]
OptionSets ==
    { [chunkDuration |-> 1, batchSize |-> 1, maxWorkers |-> 1],
      [chunkDuration |-> 1, batchSize |-> 2, maxWorkers |-> 0] }

\* chunk timestamps (seconds) a caller may pass
Timestamps == {0, 3}

\* what the Transcription Service call yields once parsed: a list of cues,
\* zero-based, as parseVttContent returns them (no check of start against end)
Cue(s, e, text) == [start |-> s, end |-> e, text |-> text]
Transcripts ==
    { << >>,
      << Cue(0, 2, "hello") >>,
      << Cue(2, 1, "world") >> }

\* query arguments (startTime, endTime) of getSubtitlesInRange
QueryRanges == { << 0, 1 >>, << 2, 2 >> }

\* ------------------------------------------------------------ state
VARIABLES
    activeSessions,   \* this.activeSessions: session id -> object (0: absent)
    heap,             \* the session objects ever created, by reference
    conversions,      \* convertAudioToWav calls whose ffmpeg run is pending
    batches,          \* processBatch calls in flight
    files,            \* names of the files in this.tempDir
    now,              \* Date.now()
    crashed,          \* an exception escaped an event handler
    segCount,         \* subtitle objects created so far (their identity)
    appended,         \* history: per session object, the segments ever pushed
    created,          \* history: per session object, the file names made for it
    dispatches,       \* history: per session object, calls of processBatch
    ended,            \* history: the session objects endSession has returned for
    ret,              \* what the inbound call of the last step returned
    emitted,          \* the notifications the last step issued
    unhandled,        \* promise rejections the last step left without a handler
    sessions,         \* index.js: sessions, id -> its subtitles (absent: not in DOMAIN)
    subtitleQueue,    \* index.js: the keys set in subtitleQueue
    requests,         \* index.js: 'subtitle:request' handlers awaiting transcribe
    sharedSessions,   \* SharedViewingService: this.sessions, id -> session
    userSessions      \* SharedViewingService: this.userSessions, user id -> session id

gateVars == << sessions, subtitleQueue, requests >>

viewVars == << sharedSessions, userSessions >>

vars == << activeSessions, heap, conversions, batches, files, now, crashed,
           segCount, appended, created, dispatches, ended, ret, emitted, unhandled,
           gateVars, viewVars >>

\* op, the id it named, the session object the id stood for (0: none),
\* the outcome and the value returned
Return(op, sid, outcome, value) ==
    [ op |-> op, sid |-> sid, obj |-> activeSessions[sid], outcome |-> outcome,
      value |-> value ]

\* mutant: an unknown id is not reported
SessionNotFound_Silent(op, sid) == Return(op, sid, "ok", << >>)

\* lines 273-275, 659-661: throw new Error(`Session ${sessionId} not found`)
SessionNotFound(op, sid) == Return(op, sid, "SessionNotFound", << >>)

NoCall == [ op |-> "none", sid |-> "none", obj |-> 0, outcome |-> "none", value |-> << >> ]

\* a call made earlier on session object obj settles in this step
Settle(op, sid, obj, outcome) ==
    [ op |-> op, sid |-> sid, obj |-> obj, outcome |-> outcome, value |-> << >> ]

\* a step that issues no notification and leaves no rejection unhandled
Quiet == emitted' = << >> /\ unhandled' = 0

\* ------------------------------------------------------------ helpers
Min(a, b) == IF a <= b THEN a ELSE b

MaxOf(S) == CHOOSE x \in S : \A y \in S : y <= x

Range(s) == { s[i] : i \in 1 .. Len(s) }

\* Array.prototype.sort((a, b) => key(a) - key(b)): stable, ascending.
\* keys[i] is the key of s[i]; an element's rank counts the smaller keys and
\* the equal keys that stand before it.
SortRank(keys, i) ==
    1 + Cardinality({ j \in 1 .. Len(keys) :
                        keys[j] < keys[i] \/ (keys[j] = keys[i] /\ j < i) })

StableSort(s, keys) ==
    [ r \in 1 .. Len(s) |-> s[CHOOSE i \in 1 .. Len(s) : SortRank(keys, i) = r] ]

\* sort((a, b) => a.start - b.start)
SortByStart(s) == StableSort(s, [ i \in 1 .. Len(s) |-> s[i].start ])

IsSortedByStart(s) == \A i \in 1 .. Len(s) - 1 : s[i].start <= s[i + 1].start

\* file names of the temp directory
ChunkFile(sid, index, t) == << "chunk", sid, index, t >>
InputFile(t) == << "input", t >>
MergedFile(sid, t) == << "merged", sid, t >>
FileListFile(t) == << "filelist", t >>

\* ------------------------------------------------------------ initSession
OrDefault(v, d) == IF v = 0 THEN d ELSE v

NewSession(sid, options, t) ==
    [ id |-> sid,
      options |-> [ chunkDuration |-> OrDefault(options.chunkDuration, DefaultChunkDuration),
                    batchSize |-> OrDefault(options.batchSize, DefaultBatchSize),
                    maxWorkers |-> OrDefault(options.maxWorkers, DefaultMaxWorkers) ],
      chunks |-> << >>,
      subtitles |-> << >>,
      processingQueue |-> << >>,
      activeWorkers |-> 0,
      lastProcessedTime |-> 0,
      chunkIndex |-> 0 ]

InitAt(clock) ==
    /\ activeSessions = [sid \in SessionIds |-> 0]
    /\ heap = << >>
    /\ conversions = {}
    /\ batches = {}
    /\ files = {}
    /\ now = clock
    /\ crashed = FALSE
    /\ segCount = 0
    /\ appended = << >>
    /\ created = << >>
    /\ dispatches = << >>
    /\ ended = {}
    /\ ret = NoCall
    /\ emitted = << >>
    /\ unhandled = 0
    /\ sessions = << >>
    /\ subtitleQueue = {}
    /\ requests = {}
    /\ sharedSessions = << >>
    /\ userSessions = << >>

Init == InitAt(0)

InitSession(sid, options) ==
    /\ ~crashed
    /\ Len(heap) < MaxInits
    /\ (heap = << >>) => sid = "s1"    \* ids are interchangeable: the first is s1
    /\ heap' = Append(heap, NewSession(sid, options, now))
    /\ activeSessions' = [activeSessions EXCEPT ![sid] = Len(heap) + 1]
    /\ appended' = Append(appended, {})
    /\ created' = Append(created, {})
    /\ dispatches' = Append(dispatches, 0)
    /\ ret' = Return("initSession", sid, "ok", << >>)
    /\ UNCHANGED << conversions, batches, files, now, crashed, segCount >>
    /\ Quiet
    /\ UNCHANGED << ended, gateVars, viewVars >>

\* ------------------------------------------------------------ processQueue
\* The synchronous code threads the mutable state it touches as a record m:
\* [heap, batches, files, created, dispatches].

\* mutant: the slot test off by one
HasFreeWorker_OffByOne(s) == s.activeWorkers <= s.options.maxWorkers

\* line 321 / the loop condition of line 324: a worker slot is free
HasFreeWorker(s) == s.activeWorkers < s.options.maxWorkers

\* mutant: the batch takes the whole queue
TakeCount_All(s) == Len(s.processingQueue)

\* line 326: how many chunks the next batch takes
TakeCount(s) == Min(s.options.batchSize, Len(s.processingQueue))

SetStatus(chunks, positions, status) ==
    [ i \in 1 .. Len(chunks) |->
        IF i \in Range(positions) THEN [chunks[i] EXCEPT !.status = status]
        ELSE chunks[i] ]

\* mutant: the batch is read off the head of the queue without being removed
Dispatch_NoSplice(m, h, sid, t) ==
    LET s == m.heap[h]
        n == TakeCount(s)
        chunkBatch == SubSeq(s.processingQueue, 1, n)
        s2 == [s EXCEPT !.chunks = SetStatus(s.chunks, chunkBatch, "processing"),
                        !.activeWorkers = s.activeWorkers + 1]
        b == [ sess |-> h, sid |-> sid, chunks |-> chunkBatch, phase |-> "merging",
               merged |-> MergedFile(sid, t), fileList |-> FileListFile(t) ]
    IN [ m EXCEPT !.heap[h] = s2,
                  !.batches = m.batches \cup {b},
                  !.dispatches[h] = m.dispatches[h] + 1 ]

\* mutant: the batch keeps the order of the queue (the sort of line 362 left out)
Dispatch_NoSort(m, h, sid, t) ==
    LET s == m.heap[h]
        n == TakeCount(s)
        chunkBatch == SubSeq(s.processingQueue, 1, n)
        s2 == [s EXCEPT !.processingQueue = SubSeq(s.processingQueue, n + 1, Len(s.processingQueue)),
                        !.chunks = SetStatus(s.chunks, chunkBatch, "processing"),
                        !.activeWorkers = s.activeWorkers + 1]
        b == [ sess |-> h, sid |-> sid, chunks |-> chunkBatch, phase |-> "merging",
               merged |-> MergedFile(sid, t), fileList |-> FileListFile(t) ]
    IN [ m EXCEPT !.heap[h] = s2,
                  !.batches = m.batches \cup {b},
                  !.files = m.files \cup {FileListFile(t)},
                  !.created[h] = m.created[h] \cup {MergedFile(sid, t), FileListFile(t)},
                  !.dispatches[h] = m.dispatches[h] + 1 ]

\* One turn of the while loop of processQueue, with the synchronous head of
\* processBatch (sort, merged file name) and of mergeAudioFiles (file list
\* written, ffmpeg started). A chunk is named by its position in session.chunks.
Dispatch(m, h, sid, t) ==
    LET s == m.heap[h]
        n == TakeCount(s)
        chunkBatch == SubSeq(s.processingQueue, 1, n)
        sorted == StableSort(chunkBatch, [ i \in 1 .. n |-> s.chunks[chunkBatch[i]].timestamp ])
        s2 == [s EXCEPT !.processingQueue = SubSeq(s.processingQueue, n + 1, Len(s.processingQueue)),
                        !.chunks = SetStatus(s.chunks, chunkBatch, "processing"),
                        !.activeWorkers = s.activeWorkers + 1]
        b == [ sess |-> h, sid |-> sid, chunks |-> sorted, phase |-> "merging",
               merged |-> MergedFile(sid, t), fileList |-> FileListFile(t) ]
    IN [ m EXCEPT !.heap[h] = s2,
                  !.batches = m.batches \cup {b},
                  !.files = m.files \cup {FileListFile(t)},
                  !.created[h] = m.created[h] \cup {MergedFile(sid, t), FileListFile(t)},
                  !.dispatches[h] = m.dispatches[h] + 1 ]

RECURSIVE DispatchLoop(_, _, _, _)
DispatchLoop(m, h, sid, t) ==
    IF Len(m.heap[h].processingQueue) > 0 /\ HasFreeWorker(m.heap[h])
    THEN DispatchLoop(Dispatch(m, h, sid, t), h, sid, t)
    ELSE m

\* processQueue(sessionId): looks the session up by id in registry reg
ProcessQueue(m, reg, sid, t) ==
    IF reg[sid] = 0 THEN m
    ELSE IF ~HasFreeWorker(m.heap[reg[sid]]) THEN m
    ELSE DispatchLoop(m, reg[sid], sid, t)

Machine == [ heap |-> heap, batches |-> batches, files |-> files,
             created |-> created, dispatches |-> dispatches ]

Install(m) ==
    /\ heap' = m.heap
    /\ batches' = m.batches
    /\ files' = m.files
    /\ created' = m.created
    /\ dispatches' = m.dispatches

\* ------------------------------------------------------------ processAudioChunk
Submitted == LET RECURSIVE Sum(_)
                 Sum(i) == IF i = 0 THEN 0 ELSE heap[i].chunkIndex + Sum(i - 1)
             IN Sum(Len(heap))

\* lines 271-286: up to the await of convertAudioToWav (whose executor has
\* written the input file and started ffmpeg)
ProcessAudioChunkCall(sid, timestamp, maxChunks) ==
    /\ ~crashed
    /\ IF activeSessions[sid] = 0
       THEN /\ ret' = SessionNotFound("processAudioChunk", sid)
            /\ UNCHANGED << activeSessions, heap, conversions, batches, files, now,
                            crashed, segCount, appended, created, dispatches >>
       ELSE LET h == activeSessions[sid]
                s == heap[h]
                chunkFilename == ChunkFile(sid, s.chunkIndex, now)
                c == [ sess |-> h, sid |-> sid, filename |-> chunkFilename,
                       input |-> InputFile(now), timestamp |-> timestamp,
                       index |-> s.chunkIndex ]
            IN /\ Submitted < maxChunks
               /\ Cardinality(conversions) < MaxConversions
               /\ heap' = [heap EXCEPT ![h].chunkIndex = s.chunkIndex + 1]
               /\ conversions' = conversions \cup {c}
               /\ files' = files \cup {InputFile(now)}
               /\ created' = [created EXCEPT ![h] = @ \cup {chunkFilename, InputFile(now)}]
               /\ ret' = Return("processAudioChunk", sid, "pending", << >>)
               /\ UNCHANGED << activeSessions, batches, now, crashed, segCount,
                               appended, dispatches >>
    /\ Quiet
    /\ UNCHANGED << ended, gateVars, viewVars >>

ProcessAudioChunk(sid, timestamp) == ProcessAudioChunkCall(sid, timestamp, MaxChunks)

\* lines 299-301: the dispatch trigger, on the session the call captured
ShouldProcess(s, timestamp) ==
    \/ Len(s.processingQueue) >= s.options.batchSize
    \/ timestamp - s.lastProcessedTime > s.options.chunkDuration * 2

\* lines 305-309: what processAudioChunk resolves with
Queued(s) ==
    [ status |-> "queued",
      queueLength |-> Len(s.processingQueue),
      totalChunks |-> Len(s.chunks) ]

\* ffmpeg's 'end' (lines 438-442), then lines 288-309 of processAudioChunk.
\* The index of the record is read from the session's counter at this point
\* (line 292), the index in the file name was read before the await (line 282).
\* unlinkSync of an input file that is gone throws inside the event handler.
ConvertEnd(c) ==
    /\ ~crashed
    /\ c \in conversions
    /\ conversions' = conversions \ {c}
    /\ IF c.input \notin files
       THEN /\ crashed' = TRUE
            /\ ret' = NoCall
            /\ files' = files \cup {c.filename}
            /\ UNCHANGED << activeSessions, heap, batches, now, segCount, appended,
                            created, dispatches >>
       ELSE LET s == heap[c.sess]
                chunk == [ filename |-> c.filename, timestamp |-> c.timestamp,
                           index |-> s.chunkIndex - 1, status |-> "queued" ]
                s2 == [s EXCEPT !.chunks = Append(s.chunks, chunk),
                                !.processingQueue = Append(s.processingQueue, Len(s.chunks) + 1)]
                m1 == [Machine EXCEPT !.heap[c.sess] = s2,
                                      !.files = (files \cup {c.filename}) \ {c.input}]
                m2 == IF ShouldProcess(s2, c.timestamp)
                      THEN ProcessQueue(m1, activeSessions, c.sid, now)
                      ELSE m1
            IN /\ Install(m2)
               /\ ret' = [ Settle("processAudioChunk", c.sid, c.sess, "queued")
                            EXCEPT !.value = << Queued(m2.heap[c.sess]) >> ]
               /\ UNCHANGED << activeSessions, now, crashed, segCount, appended >>
    /\ Quiet
    /\ UNCHANGED << ended, gateVars, viewVars >>

\* mutant: the chunk whose conversion failed is still recorded, as failed
ConvertError_Records(c) ==
    /\ ~crashed
    /\ c \in conversions
    /\ conversions' = conversions \ {c}
    /\ files' = files \ {c.input}
    /\ ret' = Settle("processAudioChunk", c.sid, c.sess, "rejected")
    /\ heap' = [heap EXCEPT ![c.sess].chunks =
                   Append(@, [ filename |-> c.filename, timestamp |-> c.timestamp,
                               index |-> heap[c.sess].chunkIndex - 1, status |-> "failed" ])]
    /\ UNCHANGED << activeSessions, batches, now, crashed, segCount, appended,
                    created, dispatches >>
    /\ Quiet
    /\ UNCHANGED << ended, gateVars, viewVars >>

\* ffmpeg's 'error' (lines 443-451): the call rejects, no chunk is recorded
ConvertError(c) ==
    /\ ~crashed
    /\ c \in conversions
    /\ conversions' = conversions \ {c}
    /\ files' = files \ {c.input}
    /\ ret' = Settle("processAudioChunk", c.sid, c.sess, "rejected")
    /\ UNCHANGED << activeSessions, heap, batches, now, crashed, segCount, appended,
                    created, dispatches >>
    /\ Quiet
    /\ UNCHANGED << ended, gateVars, viewVars >>

\* ------------------------------------------------------------ processBatch
\* mutant: the notification is issued twice
EmitSubtitles_Twice(sessionId, subtitles) ==
    << [ sessionId |-> sessionId, subtitles |-> subtitles ],
       [ sessionId |-> sessionId, subtitles |-> subtitles ] >>

\* emitSubtitles (lines 615-619): one notification
EmitSubtitles(sessionId, subtitles) ==
    << [ sessionId |-> sessionId, subtitles |-> subtitles ] >>

\* processBatch rejected: the promise that finally() returns (line 336)
\* rejects too and nothing handles it. What follows is the host's choice: the
\* default of the runtime ends the process, a host with a handler for
\* unhandled rejections goes on.
Unhandled ==
    /\ emitted' = << >>
    /\ unhandled' = 1
    /\ crashed' \in BOOLEAN

\* mutant: the slot is released but the queue is not drained (lines 344-346 left out)
Finally_NoDrain(m, reg, b, t) ==
    LET s == m.heap[b.sess]
    IN [m EXCEPT !.heap[b.sess] =
            [s EXCEPT !.activeWorkers = s.activeWorkers - 1,
                      !.lastProcessedTime = MaxOf({ s.chunks[p].timestamp : p \in Range(b.chunks) })]]

\* mutant: the finally callback without the decrement of line 338
Finally_NoRelease(m, reg, b, t) ==
    LET s == m.heap[b.sess]
        s2 == [s EXCEPT !.lastProcessedTime =
                          MaxOf({ s.chunks[p].timestamp : p \in Range(b.chunks) })]
        m1 == [m EXCEPT !.heap[b.sess] = s2]
    IN IF Len(s2.processingQueue) > 0 THEN ProcessQueue(m1, reg, b.sid, t) ELSE m1

\* lines 336-347: the finally callback of processQueue
Finally(m, reg, b, t) ==
    LET s == m.heap[b.sess]
        s2 == [s EXCEPT !.activeWorkers = s.activeWorkers - 1,
                        !.lastProcessedTime = MaxOf({ s.chunks[p].timestamp : p \in Range(b.chunks) })]
        m1 == [m EXCEPT !.heap[b.sess] = s2]
    IN IF Len(s2.processingQueue) > 0 THEN ProcessQueue(m1, reg, b.sid, t) ELSE m1

\* mutant: the chunks of a failed batch go back to the end of the queue
FailBatch_Requeue(m, reg, b, t) ==
    LET s == m.heap[b.sess]
        m1 == [m EXCEPT !.heap[b.sess].chunks = SetStatus(s.chunks, b.chunks, "failed"),
                        !.heap[b.sess].processingQueue = s.processingQueue \o b.chunks,
                        !.batches = m.batches \ {b}]
    IN Finally_NoDrain(m1, reg, b, t)

\* mutant: the catch leaves the status of the chunks as it is (lines 412-414
\* left out)
FailBatch_Unmarked(m, reg, b, t) ==
    Finally([m EXCEPT !.batches = m.batches \ {b}], reg, b, t)

\* the catch of processBatch (lines 410-417), then the finally callback
FailBatch(m, reg, b, t) ==
    LET s == m.heap[b.sess]
        m1 == [m EXCEPT !.heap[b.sess].chunks = SetStatus(s.chunks, b.chunks, "failed"),
                        !.batches = m.batches \ {b}]
    IN Finally(m1, reg, b, t)

\* ffmpeg's 'end' of the merge (lines 477-481): the merged file is written,
\* the file list is deleted, transcribeAudio starts
MergeEnd(b) ==
    /\ ~crashed
    /\ b \in batches
    /\ b.phase = "merging"
    /\ ret' = NoCall
    /\ files' = (files \cup {b.merged}) \ {b.fileList}
    /\ IF b.fileList \notin files
       THEN /\ crashed' = TRUE
            /\ batches' = batches \ {b}
       ELSE /\ batches' = (batches \ {b}) \cup {[b EXCEPT !.phase = "transcribing"]}
            /\ UNCHANGED crashed
    /\ UNCHANGED << activeSessions, heap, conversions, now, segCount, appended,
                    created, dispatches >>
    /\ Quiet
    /\ UNCHANGED << ended, gateVars, viewVars >>

\* ffmpeg's 'error' of the merge (lines 482-490)
MergeError(b) ==
    /\ ~crashed
    /\ b \in batches
    /\ b.phase = "merging"
    /\ ret' = NoCall
    /\ Install(FailBatch([Machine EXCEPT !.files = files \ {b.fileList}],
                         activeSessions, b, now))
    /\ Unhandled
    /\ UNCHANGED << activeSessions, conversions, now, segCount, appended >>
    /\ UNCHANGED << ended, gateVars, viewVars >>

\* adjustSubtitleTimestamps (lines 602-608); each result is a new object,
\* numbered from first
AdjustSubtitleTimestamps(cues, baseTimestamp, first) ==
    [ i \in 1 .. Len(cues) |->
        [ id |-> first + i,
          start |-> cues[i].start + baseTimestamp,
          end |-> cues[i].end + baseTimestamp,
          text |-> cues[i].text ] ]

\* mutant: push without the sort of line 385
AppendSubtitles_NoSort(subtitles, adjusted) == subtitles \o adjusted

\* mutant: the batch's segments pushed twice
AppendSubtitles_Twice(subtitles, adjusted) ==
    SortByStart(subtitles \o adjusted \o adjusted)

\* lines 382-385: push, then sort by start
AppendSubtitles(subtitles, adjusted) ==
    SortByStart(subtitles \o adjusted)

\* the transcription resolved with cues (lines 377-409), then finally
TranscribeOk(b, cues) ==
    /\ ~crashed
    /\ b \in batches
    /\ b.phase = "transcribing"
    /\ ret' = NoCall
    /\ LET s == heap[b.sess]
           baseTimestamp == s.chunks[b.chunks[1]].timestamp
           adjusted == AdjustSubtitleTimestamps(cues, baseTimestamp, segCount)
           s2 == [s EXCEPT !.subtitles = AppendSubtitles(s.subtitles, adjusted),
                           !.chunks = SetStatus(s.chunks, b.chunks, "processed")]
           m1 == [Machine EXCEPT
                    !.heap[b.sess] = s2,
                    !.batches = batches \ {b},
                    !.files = (files \ { s.chunks[p].filename : p \in Range(b.chunks) })
                              \ {b.merged}]
       IN /\ Install(Finally(m1, activeSessions, b, now))
          /\ segCount' = segCount + Len(cues)
          /\ appended' = [appended EXCEPT ![b.sess] = @ \cup Range(adjusted)]
          /\ emitted' = EmitSubtitles(b.sid, adjusted)
    /\ unhandled' = 0
    /\ UNCHANGED << activeSessions, conversions, now, crashed >>
    /\ UNCHANGED << ended, gateVars, viewVars >>

\* the transcription rejected (lines 514-517, 410-417), then finally
TranscribeFail(b) ==
    /\ ~crashed
    /\ b \in batches
    /\ b.phase = "transcribing"
    /\ ret' = NoCall
    /\ Install(FailBatch(Machine, activeSessions, b, now))
    /\ Unhandled
    /\ UNCHANGED << activeSessions, conversions, now, segCount, appended >>
    /\ UNCHANGED << ended, gateVars, viewVars >>

\* ------------------------------------------------------------ queries, endSession
\* lines 626-633: a sorted copy, or [] when the id is not registered
GetSubtitlesOf(sid) ==
    IF activeSessions[sid] = 0 THEN << >>
    ELSE SortByStart(heap[activeSessions[sid]].subtitles)

\* mutant: the covering case of line 648 left out
InRange_NoCover(subtitle, startTime, endTime) ==
    \/ subtitle.start >= startTime /\ subtitle.start <= endTime
    \/ subtitle.end >= startTime /\ subtitle.end <= endTime

\* the filter of lines 646-648
InRange(subtitle, startTime, endTime) ==
    \/ subtitle.start >= startTime /\ subtitle.start <= endTime
    \/ subtitle.end >= startTime /\ subtitle.end <= endTime
    \/ subtitle.start <= startTime /\ subtitle.end >= endTime

\* lines 642-650
GetSubtitlesInRangeOf(sid, startTime, endTime) ==
    SelectSeq(GetSubtitlesOf(sid), LAMBDA x : InRange(x, startTime, endTime))

GetSubtitles(sid) ==
    /\ ~crashed
    /\ ret' = Return("getSubtitles", sid, "ok", GetSubtitlesOf(sid))
    /\ UNCHANGED << activeSessions, heap, conversions, batches, files, now, crashed,
                    segCount, appended, created, dispatches >>
    /\ Quiet
    /\ UNCHANGED << ended, gateVars, viewVars >>

GetSubtitlesInRange(sid, startTime, endTime) ==
    /\ ~crashed
    /\ ret' = Return("getSubtitlesInRange", sid, "ok", GetSubtitlesInRangeOf(sid, startTime, endTime))
    /\ UNCHANGED << activeSessions, heap, conversions, batches, files, now, crashed,
                    segCount, appended, created, dispatches >>
    /\ Quiet
    /\ UNCHANGED << ended, gateVars, viewVars >>

\* line 669: the snapshot endSession returns
Snapshot(sid) == GetSubtitlesOf(sid)

\* lines 657-690
EndSession(sid) ==
    /\ ~crashed
    /\ IF activeSessions[sid] = 0
       THEN /\ ret' = SessionNotFound("endSession", sid)
            /\ UNCHANGED << activeSessions, files, ended >>
       ELSE LET s == heap[activeSessions[sid]]
            IN /\ ret' = Return("endSession", sid, "ok", Snapshot(sid))
               /\ activeSessions' = [activeSessions EXCEPT ![sid] = 0]
               /\ ended' = ended \cup {activeSessions[sid]}
               /\ files' = files \ { s.chunks[i].filename : i \in 1 .. Len(s.chunks) }
    /\ UNCHANGED << heap, conversions, batches, now, crashed, segCount, appended,
                    created, dispatches >>
    /\ Quiet
    /\ UNCHANGED << gateVars, viewVars >>

\* ------------------------------------------------------------ the clock
\* mutant: a timer that flushes the queue of the first session id
Tick_IdleFlush ==
    /\ ~crashed
    /\ now < MaxNow
    /\ now' = now + 1
    /\ ret' = NoCall
    /\ Install(ProcessQueue(Machine, activeSessions, "s1", now))
    /\ UNCHANGED << activeSessions, conversions, crashed, segCount, appended >>
    /\ Quiet
    /\ UNCHANGED << ended, gateVars, viewVars >>

Tick ==
    /\ ~crashed
    /\ now < MaxNow
    /\ now' = now + 1
    /\ ret' = NoCall
    /\ UNCHANGED << activeSessions, heap, conversions, batches, files, crashed,
                    segCount, appended, created, dispatches >>
    /\ Quiet
    /\ UNCHANGED << ended, gateVars, viewVars >>

Next ==
    \/ \E sid \in SessionIds, options \in OptionSets : InitSession(sid, options)
    \/ \E sid \in SessionIds, timestamp \in Timestamps : ProcessAudioChunk(sid, timestamp)
    \/ \E c \in conversions : ConvertEnd(c)
    \/ \E c \in conversions : ConvertError(c)
    \/ \E b \in batches : MergeEnd(b)
    \/ \E b \in batches : MergeError(b)
    \/ \E b \in batches, cues \in Transcripts : TranscribeOk(b, cues)
    \/ \E b \in batches : TranscribeFail(b)
    \/ \E sid \in SessionIds : GetSubtitles(sid)
    \/ \E sid \in SessionIds, q \in QueryRanges : GetSubtitlesInRange(sid, q[1], q[2])
    \/ \E sid \in SessionIds : EndSession(sid)
    \/ Tick

Spec == Init /\ [][Next]_vars

\* ------------------------------------------------------------ index.js: the gate
\* Times here are milliseconds. A timestamp of 0 stands for a missing (or
\* zero) timestamp, which `timestamp || Date.now()` replaces by the clock.
BucketMs == 5000
HistoryLimit == 1000
MaxRequests == 3       \* subtitles stored plus requests in flight

GateEpoch == 4 * BucketMs
GateTimestamps == {0, 1000, 2000, 6000}

\* line 537: the key of subtitleQueue
QueueKey(sid, currentTime) == << sid, currentTime \div BucketMs >>

\* what a handler call did (outcome) and what it emitted to its caller (value)
GateReply(sid, outcome, messages) ==
    [ op |-> "subtitle:request", sid |-> sid, obj |-> 0, outcome |-> outcome,
      value |-> messages ]

\* lines 561-563 with the limit as a parameter: slice(-limit) of a longer list
TrimHistoryTo(subtitles, limit) ==
    IF Len(subtitles) > limit
    THEN SubSeq(subtitles, Len(subtitles) - limit + 1, Len(subtitles))
    ELSE subtitles

\* lines 560-563: keep the last HistoryLimit entries
TrimHistory(subtitles) == TrimHistoryTo(subtitles, HistoryLimit)

InitGate == InitAt(GateEpoch)

\* app.post('/api/session/create') (lines 329-344): a fresh uuid
CreateSession(sid) ==
    /\ sid \notin DOMAIN sessions
    /\ sessions' = [ x \in DOMAIN sessions \cup {sid} |->
                       IF x = sid THEN << >> ELSE sessions[x] ]
    /\ ret' = NoCall
    /\ Quiet
    /\ UNCHANGED viewVars
    /\ UNCHANGED << activeSessions, heap, conversions, batches, files, now, crashed,
                    segCount, appended, created, dispatches, ended, subtitleQueue,
                    requests >>

Stored == LET RECURSIVE Sum(_)
              Sum(S) == IF S = {} THEN 0
                        ELSE LET x == CHOOSE y \in S : TRUE
                             IN Len(sessions[x]) + Sum(S \ {x})
          IN Sum(DOMAIN sessions)

\* 'subtitle:request' up to the await of whisperService.transcribe (lines 527-548)
SubtitleRequest(sid, timestamp) ==
    /\ IF sid \notin DOMAIN sessions
       THEN /\ ret' = GateReply(sid, "invalid", << "error" >>)
            /\ UNCHANGED << subtitleQueue, requests >>
       ELSE LET currentTime == IF timestamp # 0 THEN timestamp ELSE now
                queueKey == QueueKey(sid, currentTime)
            IN IF queueKey \in subtitleQueue
               THEN /\ ret' = GateReply(sid, "dropped", << >>)
                    /\ UNCHANGED << subtitleQueue, requests >>
               ELSE /\ Stored + Cardinality(requests) < MaxRequests
                    /\ subtitleQueue' = subtitleQueue \cup {queueKey}
                    /\ requests' = requests \cup
                          {[ sid |-> sid, timestamp |-> timestamp, queueKey |-> queueKey ]}
                    /\ ret' = GateReply(sid, "accepted", << >>)
    /\ Quiet
    /\ UNCHANGED viewVars
    /\ UNCHANGED << activeSessions, heap, conversions, batches, files, now, crashed,
                    segCount, appended, created, dispatches, ended, sessions >>

\* transcribe resolved (lines 550-572)
RequestDone(r) ==
    /\ r \in requests
    /\ requests' = requests \ {r}
    /\ LET transcription == [ timestamp |-> IF r.timestamp # 0 THEN r.timestamp ELSE now ]
       IN sessions' = [sessions EXCEPT ![r.sid] = TrimHistory(Append(@, transcription))]
    /\ subtitleQueue' = subtitleQueue \ {r.queueKey}
    /\ ret' = NoCall
    /\ emitted' = << [ sessionId |-> r.sid,
                       subtitles |-> << [ timestamp |-> IF r.timestamp # 0 THEN r.timestamp
                                                                          ELSE now ] >> ] >>
    /\ unhandled' = 0
    /\ UNCHANGED viewVars
    /\ UNCHANGED << activeSessions, heap, conversions, batches, files, now, crashed,
                    segCount, appended, created, dispatches, ended >>

\* transcribe rejected (lines 573-581)
RequestFail(r) ==
    /\ r \in requests
    /\ requests' = requests \ {r}
    /\ subtitleQueue' = IF r.timestamp # 0
                        THEN subtitleQueue \ {QueueKey(r.sid, r.timestamp)}
                        ELSE subtitleQueue
    /\ ret' = NoCall
    /\ Quiet
    /\ UNCHANGED viewVars
    /\ UNCHANGED << activeSessions, heap, conversions, batches, files, now, crashed,
                    segCount, appended, created, dispatches, ended, sessions >>

\* the handler after transcribe resolved, with a history limit of `limit`
RequestDoneKeeping(r, limit) ==
    /\ r \in requests
    /\ requests' = requests \ {r}
    /\ LET transcription == [ timestamp |-> IF r.timestamp # 0 THEN r.timestamp ELSE now ]
       IN sessions' = [sessions EXCEPT ![r.sid] = TrimHistoryTo(Append(@, transcription), limit)]
    /\ subtitleQueue' = subtitleQueue \ {r.queueKey}
    /\ ret' = NoCall
    /\ emitted' = << [ sessionId |-> r.sid,
                       subtitles |-> << [ timestamp |-> IF r.timestamp # 0 THEN r.timestamp
                                                                          ELSE now ] >> ] >>
    /\ unhandled' = 0
    /\ UNCHANGED viewVars
    /\ UNCHANGED << activeSessions, heap, conversions, batches, files, now, crashed,
                    segCount, appended, created, dispatches, ended >>

\* the wall clock moves on by one bucket
GateTick ==
    /\ now < GateEpoch + MaxNow * BucketMs
    /\ now' = now + BucketMs
    /\ ret' = NoCall
    /\ Quiet
    /\ UNCHANGED << activeSessions, heap, conversions, batches, files, crashed,
                    segCount, appended, created, dispatches, ended, gateVars, viewVars >>

NextGate ==
    \/ \E sid \in SessionIds : CreateSession(sid)
    \/ \E sid \in SessionIds, timestamp \in GateTimestamps : SubtitleRequest(sid, timestamp)
    \/ \E r \in requests : RequestDone(r)
    \/ \E r \in requests : RequestFail(r)
    \/ GateTick

SpecGate == InitGate /\ [][NextGate]_vars

\* The same handlers with the history limit scaled down from HistoryLimit to
\* HistoryKept, so that a history overflows within MaxRequests results.
HistoryKept == 2

NextHistory ==
    \/ \E sid \in SessionIds : CreateSession(sid)
    \/ \E sid \in SessionIds, timestamp \in GateTimestamps : SubtitleRequest(sid, timestamp)
    \/ \E r \in requests : RequestDoneKeeping(r, HistoryKept)
    \/ \E r \in requests : RequestFail(r)
    \/ GateTick

SpecHistory == InitGate /\ [][NextHistory]_vars

\* ------------------------------------------------------------ one session, no gaps
\* One session with the default options (chunkDuration 10, batchSize 3,
\* maxWorkers 2); the caller awaits each processAudioChunk before the next, and
\* chunk k carries timestamp k * chunkDuration. No conversion, merge or
\* transcription fails.
ScenarioChunks == 7
ScenarioSession == "s1"

ScenarioStart ==
    /\ heap = << >>
    /\ InitSession(ScenarioSession, NoOptions)

ScenarioSubmit ==
    /\ activeSessions[ScenarioSession] # 0
    /\ conversions = {}
    /\ ProcessAudioChunkCall(ScenarioSession,
          heap[activeSessions[ScenarioSession]].options.chunkDuration
             * heap[activeSessions[ScenarioSession]].chunkIndex,
          ScenarioChunks)

NextScenario ==
    \/ ScenarioStart
    \/ ScenarioSubmit
    \/ \E c \in conversions : ConvertEnd(c)
    \/ \E b \in batches : MergeEnd(b)
    \/ \E b \in batches, cues \in Transcripts : TranscribeOk(b, cues)
    \/ Tick

SpecScenario == Init /\ [][NextScenario]_vars

\* ------------------------------------------------------------ one session, a burst
\* One session with batchSize 2 and a single worker; the caller submits
\* chunks with any of the timestamps without awaiting the calls, so that
\* chunks pile up in the queue behind the batch in flight.
BurstChunks == 4
BurstOptions == [ chunkDuration |-> 1, batchSize |-> 2, maxWorkers |-> 1 ]

BurstStart ==
    /\ heap = << >>
    /\ InitSession(ScenarioSession, BurstOptions)

BurstSubmit(timestamp) ==
    ProcessAudioChunkCall(ScenarioSession, timestamp, BurstChunks)

NextBurst ==
    \/ BurstStart
    \/ \E timestamp \in Timestamps : BurstSubmit(timestamp)
    \/ \E c \in conversions : ConvertEnd(c)
    \/ \E c \in conversions : ConvertError(c)
    \/ \E b \in batches : MergeEnd(b)
    \/ \E b \in batches : MergeError(b)
    \/ \E b \in batches, cues \in Transcripts : TranscribeOk(b, cues)
    \/ \E b \in batches : TranscribeFail(b)
    \/ Tick

SpecBurst == Init /\ [][NextBurst]_vars

\* A short burst for the progress of the queue: four chunks with the same
\* timestamp, the clock standing still, transcriptions without cues, under
\* the assumption that every batch in flight comes to an end (its merge ends
\* or fails, its transcription resolves or rejects).
DrainChunks == 4

NextDrain ==
    \/ BurstStart
    \/ ProcessAudioChunkCall(ScenarioSession, 0, DrainChunks)
    \/ \E c \in conversions : ConvertEnd(c)
    \/ \E c \in conversions : ConvertError(c)
    \/ \E b \in batches : MergeEnd(b)
    \/ \E b \in batches : MergeError(b)
    \/ \E b \in batches : TranscribeOk(b, << >>)
    \/ \E b \in batches : TranscribeFail(b)

BatchesEnd ==
    /\ WF_vars(\E b \in batches : MergeEnd(b) \/ MergeError(b))
    /\ WF_vars(\E b \in batches : TranscribeOk(b, << >>) \/ TranscribeFail(b))

SpecDrain == Init /\ [][NextDrain]_vars /\ BatchesEnd

\* A short burst whose session the caller may end at any moment, batches in
\* flight or not; every batch in flight comes to an end.
CloseChunks == 3

NextClose ==
    \/ BurstStart
    \/ ProcessAudioChunkCall(ScenarioSession, 0, CloseChunks)
    \/ \E c \in conversions : ConvertEnd(c)
    \/ \E c \in conversions : ConvertError(c)
    \/ \E b \in batches : MergeEnd(b)
    \/ \E b \in batches : MergeError(b)
    \/ \E b \in batches : TranscribeOk(b, << >>)
    \/ \E b \in batches : TranscribeFail(b)
    \/ EndSession(ScenarioSession)

SpecClose == Init /\ [][NextClose]_vars /\ BatchesEnd

\* ------------------------------------------------------------ the cleanup timer
\* The only timer of the service: setInterval(cleanupTempFiles, 1 hour), set
\* by the constructor (line 227). Times are milliseconds. The time in a
\* file's name stands for its mtime (an ffmpeg run is short against the
\* hour of the timer).
HourMs == 3600000
MaxFileAge == 86400000
MaxHours == 25
IdleChunks == 1

Mtime(file) == file[Len(file)]

\* cleanupTempFiles (lines 695-714): unlink what is older than 24 hours
CleanupTempFiles(fs, t) == { file \in fs : ~(t - Mtime(file) > MaxFileAge) }

\* an hour passes (the clock stops at MaxHours) and the timer fires
HourPasses ==
    /\ ~crashed
    /\ now' = Min(now + HourMs, MaxHours * HourMs)
    /\ files' = CleanupTempFiles(files, now')
    /\ ret' = NoCall
    /\ Quiet
    /\ UNCHANGED << activeSessions, heap, conversions, batches, crashed, segCount,
                    appended, created, dispatches, ended, gateVars, viewVars >>

\* One session that is given up to IdleChunks chunks (timestamp 3, which the
\* time trigger dispatches at once) and is never ended by its caller, while
\* the hours pass; every batch in flight comes to an end.
NextIdle ==
    \/ BurstStart
    \/ ProcessAudioChunkCall(ScenarioSession, 3, IdleChunks)
    \/ \E c \in conversions : ConvertEnd(c)
    \/ \E c \in conversions : ConvertError(c)
    \/ \E b \in batches : MergeEnd(b)
    \/ \E b \in batches : MergeError(b)
    \/ \E b \in batches : TranscribeOk(b, << >>)
    \/ \E b \in batches : TranscribeFail(b)
    \/ HourPasses

SpecIdle == Init /\ [][NextIdle]_vars /\ BatchesEnd /\ WF_vars(HourPasses)

\* ------------------------------------------------------------ parseVttContent
\* What openai.audio.transcriptions.create resolved with: a string, given by
\* its lines after trim, or a value that is no string (a parsed JSON body).
\* A line is blank, the header WEBVTT, a line holding the pattern
\* HH:MM:SS.mmm --> HH:MM:SS.mmm (its two times as << hours, minutes,
\* seconds >>), or any other text.
MaxLines == 3

BlankLine == [ kind |-> "blank", from |-> << >>, to |-> << >>, text |-> "" ]
HeaderLine == [ kind |-> "header", from |-> << >>, to |-> << >>, text |-> "WEBVTT" ]
TimingLine(from, to) == [ kind |-> "timing", from |-> from, to |-> to, text |-> "" ]
TextLine(text) == [ kind |-> "text", from |-> << >>, to |-> << >>, text |-> text ]

VttLines ==
    { BlankLine, HeaderLine,
      TimingLine(<< 0, 0, 1 >>, << 0, 1, 2 >>),
      TimingLine(<< 1, 0, 0 >>, << 0, 0, 0 >>),
      TextLine("hello"),
      TextLine("00:01 --> 00:02") }

StringOf(lines) == [ type |-> "string", lines |-> lines ]

Responses ==
    { StringOf(lines) : lines \in UNION { [1 .. n -> VttLines] : n \in 1 .. MaxLines } }
      \cup { [ type |-> "object", lines |-> << >> ],
             [ type |-> "undefined", lines |-> << >> ] }

\* timestampToSeconds (lines 576-579)
TimestampToSeconds(timestamp) ==
    timestamp[1] * 3600 + timestamp[2] * 60 + timestamp[3]

\* lines 543-545 and 565-567: push currentSubtitle if it is set and has text;
\* currentSubtitle is << >> (null) or << the object >>, its text the lines
\* joined so far
PushCurrent(subtitles, currentSubtitle) ==
    IF currentSubtitle # << >> /\ currentSubtitle[1].text # << >>
    THEN Append(subtitles, currentSubtitle[1])
    ELSE subtitles

\* the loop of lines 530-562 from line i on, then lines 565-568
RECURSIVE ParseLines(_, _, _, _)
ParseLines(lines, i, subtitles, currentSubtitle) ==
    IF i > Len(lines) THEN PushCurrent(subtitles, currentSubtitle)
    ELSE LET line == lines[i]
         IN IF line.kind \in {"blank", "header"}
            THEN ParseLines(lines, i + 1, subtitles, currentSubtitle)
            ELSE IF line.kind = "timing"
            THEN ParseLines(lines, i + 1, PushCurrent(subtitles, currentSubtitle),
                            << [ start |-> TimestampToSeconds(line.from),
                                 end |-> TimestampToSeconds(line.to),
                                 text |-> << >> ] >>)
            ELSE IF currentSubtitle # << >>
            THEN ParseLines(lines, i + 1, subtitles,
                            << [ currentSubtitle[1] EXCEPT !.text = Append(@, line.text) ] >>)
            ELSE ParseLines(lines, i + 1, subtitles, currentSubtitle)

\* parseVttContent (lines 525-569): vttContent.split throws a TypeError when
\* vttContent is no string
ParseVttContent(vttContent) ==
    IF vttContent.type # "string"
    THEN [ outcome |-> "TypeError", value |-> << >> ]
    ELSE [ outcome |-> "ok", value |-> ParseLines(vttContent.lines, 1, << >>, << >>) ]

\* a direct call of parseVttContent
ParseVttContentCall(vttContent) ==
    /\ ret' = [ op |-> "parseVttContent", sid |-> "none", obj |-> 0,
                outcome |-> ParseVttContent(vttContent).outcome,
                value |-> ParseVttContent(vttContent).value,
                arg |-> vttContent ]
    /\ Quiet
    /\ UNCHANGED << activeSessions, heap, conversions, batches, files, now, crashed,
                    segCount, appended, created, dispatches, ended, gateVars, viewVars >>

\* transcribeAudio once create has resolved (lines 511-517): the parser runs
\* inside the try, whose catch logs and throws again
TranscribeAudioResolved(transcription) ==
    /\ ret' = [ op |-> "transcribeAudio", sid |-> "none", obj |-> 0,
                outcome |-> IF ParseVttContent(transcription).outcome = "ok"
                            THEN "ok" ELSE "rejected",
                value |-> ParseVttContent(transcription).value,
                arg |-> transcription ]
    /\ Quiet
    /\ UNCHANGED << activeSessions, heap, conversions, batches, files, now, crashed,
                    segCount, appended, created, dispatches, ended, gateVars, viewVars >>

NextParser ==
    \/ \E vttContent \in Responses : ParseVttContentCall(vttContent)
    \/ \E transcription \in Responses : TranscribeAudioResolved(transcription)

SpecParser == Init /\ [][NextParser]_vars

\* ------------------------------------------------------------ SharedViewingService
\* sharedSessions maps a session id to [hostUserId, participants, createdAt],
\* participants a list of [userId, role, joinedAt]; userSessions maps a user
\* id to a session id. generateSessionId draws the id from the clock and a
\* random number, so any id, one in use included, may come out.
UserIds == {"u1", "u2", "u3"}
ViewingIds == {"v1", "v2"}
JoinCodes == {"ABC123", "ABC", ""}

CodeLength(joinCode) ==
    IF joinCode = "ABC123" THEN 6 ELSE IF joinCode = "ABC" THEN 3 ELSE 0

\* Map.set and Map.delete
MapSet(map, key, value) ==
    [ k \in DOMAIN map \cup {key} |-> IF k = key THEN value ELSE map[k] ]

MapDelete(map, keys) == [ k \in DOMAIN map \ keys |-> map[k] ]

\* what a call of the service returned
ViewingReply(op, arg, outcome) ==
    [ op |-> op, sid |-> "none", obj |-> 0, outcome |-> outcome, value |-> << >>,
      arg |-> arg ]

ViewingFrame ==
    /\ Quiet
    /\ UNCHANGED << activeSessions, heap, conversions, batches, files, now, crashed,
                    segCount, appended, created, dispatches, ended, gateVars >>

\* validateJoinCode (lines 587-591): any string of six characters
ValidateJoinCode(sessionId, joinCode) == joinCode # "" /\ CodeLength(joinCode) = 6

\* createSession (lines 23-51)
CreateSharedSession(hostUserId, sessionId) ==
    /\ sharedSessions' = MapSet(sharedSessions, sessionId,
           [ hostUserId |-> hostUserId,
             participants |-> << [ userId |-> hostUserId, role |-> "host", joinedAt |-> now ] >>,
             createdAt |-> now ])
    /\ userSessions' = MapSet(userSessions, hostUserId, sessionId)
    /\ ret' = ViewingReply("createSession", hostUserId, sessionId)
    /\ ViewingFrame

\* joinSession (lines 60-98)
JoinSession(userId, sessionId, joinCode) ==
    /\ IF ~ValidateJoinCode(sessionId, joinCode)
       THEN /\ ret' = ViewingReply("joinSession", userId, "Invalid join code")
            /\ UNCHANGED viewVars
       ELSE IF sessionId \notin DOMAIN sharedSessions
       THEN /\ ret' = ViewingReply("joinSession", userId, "Session not found")
            /\ UNCHANGED viewVars
       ELSE LET session == sharedSessions[sessionId]
                existingParticipant ==
                    { i \in 1 .. Len(session.participants) :
                        session.participants[i].userId = userId }
            IN /\ sharedSessions' =
                     IF existingParticipant = {}
                     THEN [ sharedSessions EXCEPT ![sessionId].participants =
                              Append(@, [ userId |-> userId, role |-> "viewer",
                                          joinedAt |-> now ]) ]
                     ELSE sharedSessions
               /\ userSessions' = MapSet(userSessions, userId, sessionId)
               /\ ret' = ViewingReply("joinSession", userId, "session")
    /\ ViewingFrame

\* closeSession (lines 150-167) on the maps given; the participants are
\* those the session holds at the call
CloseSessionOn(all, users, sessionId) ==
    IF sessionId \notin DOMAIN all
    THEN [ sessions |-> all, userSessions |-> users, result |-> "false" ]
    ELSE [ sessions |-> MapDelete(all, {sessionId}),
           userSessions |-> MapDelete(users, { all[sessionId].participants[i].userId :
                                                i \in 1 .. Len(all[sessionId].participants) }),
           result |-> "true" ]

CloseSession(sessionId) ==
    /\ sharedSessions' = CloseSessionOn(sharedSessions, userSessions, sessionId).sessions
    /\ userSessions' = CloseSessionOn(sharedSessions, userSessions, sessionId).userSessions
    /\ ret' = ViewingReply("closeSession", sessionId,
                           CloseSessionOn(sharedSessions, userSessions, sessionId).result)
    /\ ViewingFrame

\* mutant: the first of the sorted participants becomes hostUserId but keeps
\* its role (line 131 left out)
Promote_RoleKept(participants) ==
    StableSort(participants, [ i \in 1 .. Len(participants) |-> participants[i].joinedAt ])

\* lines 129-131: sort by joinedAt in place, the first becomes host
Promote(participants) ==
    [ StableSort(participants, [ i \in 1 .. Len(participants) |-> participants[i].joinedAt ])
        EXCEPT ![1].role = "host" ]

\* array.filter(p => p.userId !== userId)
Without(participants, userId) ==
    LET RECURSIVE Filter(_)
        Filter(i) == IF i = 0 THEN << >>
                     ELSE IF participants[i].userId # userId
                     THEN Append(Filter(i - 1), participants[i])
                     ELSE Filter(i - 1)
    IN Filter(Len(participants))

\* leaveSession (lines 105-143)
LeaveSession(userId) ==
    /\ IF userId \notin DOMAIN userSessions
       THEN /\ ret' = ViewingReply("leaveSession", userId, "false")
            /\ UNCHANGED viewVars
       ELSE LET sessionId == userSessions[userId]
            IN IF sessionId \notin DOMAIN sharedSessions
               THEN /\ userSessions' = MapDelete(userSessions, {userId})
                    /\ ret' = ViewingReply("leaveSession", userId, "false")
                    /\ UNCHANGED sharedSessions
               ELSE LET session == sharedSessions[sessionId]
                        rest == Without(session.participants, userId)
                        left == [ sharedSessions EXCEPT ![sessionId].participants = rest ]
                        users == MapDelete(userSessions, {userId})
                    IN /\ ret' = ViewingReply("leaveSession", userId, "true")
                       /\ IF session.hostUserId # userId
                          THEN /\ sharedSessions' = left
                               /\ userSessions' = users
                          ELSE IF Len(rest) > 0
                          THEN /\ sharedSessions' =
                                     [ left EXCEPT ![sessionId].participants = Promote(rest),
                                                   ![sessionId].hostUserId = Promote(rest)[1].userId ]
                               /\ userSessions' = users
                          ELSE /\ sharedSessions' = CloseSessionOn(left, users, sessionId).sessions
                               /\ userSessions' = CloseSessionOn(left, users, sessionId).userSessions
    /\ ViewingFrame

\* the clock moves on between calls
ViewingTick ==
    /\ now < MaxNow
    /\ now' = now + 1
    /\ ret' = NoCall
    /\ Quiet
    /\ UNCHANGED << activeSessions, heap, conversions, batches, files, crashed,
                    segCount, appended, created, dispatches, ended, gateVars, viewVars >>

NextViewing ==
    \/ \E hostUserId \in UserIds, sessionId \in ViewingIds :
          CreateSharedSession(hostUserId, sessionId)
    \/ \E userId \in UserIds, sessionId \in ViewingIds, joinCode \in JoinCodes :
          JoinSession(userId, sessionId, joinCode)
    \/ \E userId \in UserIds : LeaveSession(userId)
    \/ \E sessionId \in ViewingIds : CloseSession(sessionId)
    \/ ViewingTick

SpecViewing == Init /\ [][NextViewing]_vars

\* ------------------------------------------------------------ claims
InFlight(h) == { b \in batches : b.sess = h }

Objects == 1 .. Len(heap)

\* C1: for every session object, the number of batches in flight never
\* exceeds the maxWorkers of its options.
C1_WorkersBounded ==
    \A h \in Objects : Cardinality(InFlight(h)) <= heap[h].options.maxWorkers

\* C1 witness: every slot of a session is taken while a chunk waits in its queue
C1_Witness ==
    \E h \in Objects :
        /\ Cardinality(InFlight(h)) = heap[h].options.maxWorkers
        /\ Len(heap[h].processingQueue) > 0

\* C2: the subtitles of every session are in non-decreasing order of start,
\* in the session and as getSubtitles returns them, whatever the order in
\* which batches completed.
C2_TimelineSorted ==
    /\ \A h \in Objects : IsSortedByStart(heap[h].subtitles)
    /\ \A sid \in SessionIds : IsSortedByStart(GetSubtitlesOf(sid))

\* C2 witness: a segment created later stands before one created earlier
C2_Witness ==
    \E h \in Objects : \E i, j \in 1 .. Len(heap[h].subtitles) :
        /\ i < j
        /\ heap[h].subtitles[i].id > heap[h].subtitles[j].id
        /\ heap[h].subtitles[i].start < heap[h].subtitles[j].start

RangeTimes == 0 .. 6

Overlaps(x, t0, t1) == x.start <= t1 /\ x.end >= t0

\* C3 as stated: for any t0 <= t1, getSubtitlesInRange returns exactly the
\* stored segments with start <= t1 and end >= t0.
C3_Original ==
    \A sid \in SessionIds : \A t0, t1 \in RangeTimes :
        t0 <= t1 =>
            GetSubtitlesInRangeOf(sid, t0, t1)
              = SelectSeq(GetSubtitlesOf(sid), LAMBDA x : Overlaps(x, t0, t1))

\* C3 amended: the result is the overlap test for every stored segment with
\* start <= end; a stored segment with end < start is returned exactly when
\* its start or its end lies in [t0, t1].
C3_RangeQuery ==
    \A sid \in SessionIds : \A t0, t1 \in RangeTimes :
        t0 <= t1 =>
            GetSubtitlesInRangeOf(sid, t0, t1)
              = SelectSeq(GetSubtitlesOf(sid),
                          LAMBDA x : IF x.start <= x.end THEN Overlaps(x, t0, t1)
                                     ELSE \/ t0 <= x.start /\ x.start <= t1
                                          \/ t0 <= x.end /\ x.end <= t1)

\* C3 witness: a range query has returned some, not all, of the stored
\* segments, one of them covering the whole queried interval
C3_Witness ==
    /\ ret.op = "getSubtitlesInRange"
    /\ ret.obj # 0
    /\ Len(ret.value) > 0
    /\ Len(ret.value) < Len(heap[ret.obj].subtitles)
    /\ \E t \in RangeTimes : \E i \in 1 .. Len(ret.value) :
          ret.value[i].start < t /\ t < ret.value[i].end

\* the batches (by session object and chunks) that this step ends in failure
FailedNow(b) ==
    /\ b \in batches
    /\ \A x \in batches' : ~(x.sess = b.sess /\ x.chunks = b.chunks)
    /\ \A p \in Range(b.chunks) : heap'[b.sess].chunks[p].status = "failed"

\* C5: a step in which a batch fails leaves the subtitles of its session as
\* they were and releases its slot; if the session is registered and its
\* queue holds chunks, the same step dispatches the head of the queue.
C5_FailureReleasesSlot ==
    [][ \A b \in batches :
          (~crashed' /\ FailedNow(b)) =>
             LET s == heap[b.sess]
                 s2 == heap'[b.sess]
                 new == { x \in batches' : x.sess = b.sess /\ x \notin batches }
             IN /\ s2.subtitles = s.subtitles
                /\ appended'[b.sess] = appended[b.sess]
                /\ s2.activeWorkers = s.activeWorkers - 1 + Cardinality(new)
                /\ (activeSessions[b.sid] = b.sess /\ Len(s.processingQueue) > 0) =>
                      /\ new # {}
                      /\ s2.chunks[s.processingQueue[1]].status = "processing"
                      /\ \E x \in new : s.processingQueue[1] \in Range(x.chunks) ]_vars

\* C5 witness: after a failed batch the next chunk holds the only slot
C5_Witness ==
    \E h \in Objects :
        /\ heap[h].options.maxWorkers = 1
        /\ dispatches[h] = 2
        /\ Len(heap[h].chunks) = 2
        /\ heap[h].chunks[1].status = "failed"
        /\ heap[h].chunks[2].status = "processing"
        /\ heap[h].chunks[2].timestamp < heap[h].chunks[1].timestamp
        /\ heap[h].subtitles = << >>

\* C8: what endSession returns holds only segments that were appended to the
\* session, and none twice.
C8_SnapshotOfAppended ==
    (ret.op = "endSession" /\ ret.outcome = "ok") =>
        /\ \A i \in 1 .. Len(ret.value) : ret.value[i] \in appended[ret.obj]
        /\ \A i, j \in 1 .. Len(ret.value) : i # j => ret.value[i].id # ret.value[j].id

\* C8 witness: endSession has returned two segments
C8_Witness ==
    /\ ret.op = "endSession"
    /\ ret.outcome = "ok"
    /\ Len(ret.value) >= 2

\* C9 as stated: once endSession has returned for a session, no file made
\* for that session exists.
C9_NoArtifactAfterEnd ==
    \A h \in ended : created[h] \cap files = {}

InboundOps == {"processAudioChunk", "endSession", "getSubtitles", "getSubtitlesInRange"}

\* C10 as stated: every inbound operation naming an id that is not
\* registered is rejected with SessionNotFound.
C10_Original ==
    (ret.op \in InboundOps /\ ret.obj = 0) => ret.outcome = "SessionNotFound"

\* C10 amended: for an id that is not registered, processAudioChunk and
\* endSession are rejected with SessionNotFound, getSubtitles and
\* getSubtitlesInRange return the empty list, and none changes any state.
C10_UnknownSession ==
    [][ (ret'.op \in InboundOps /\ ret'.obj = 0) =>
          /\ UNCHANGED << activeSessions, heap, conversions, batches, files, now,
                          crashed, segCount, appended, created, dispatches, ended,
                          gateVars, viewVars >>
          /\ ret'.value = << >>
          /\ ret'.outcome = IF ret'.op \in {"processAudioChunk", "endSession"}
                            THEN "SessionNotFound" ELSE "ok" ]_vars

\* C10 witness: endSession of an id whose session was ended before
C10_Witness ==
    /\ ret.op = "endSession"
    /\ ret.obj = 0
    /\ ret.outcome = "SessionNotFound"
    /\ ended # {}
\* C4 as stated: of the submissions of a session that fall into one bucket
\* while its claim is outstanding one is transcribed, and each other one is
\* dropped, starts no transcription and is reported with status deduped.
C4_DedupReported ==
    /\ \A r1, r2 \in requests : r1.queueKey = r2.queueKey => r1 = r2
    /\ ret.outcome = "dropped" => "deduped" \in Range(ret.value)
CeilDiv(n, d) == (n + d - 1) \div d

\* C6 as stated: with batchSize 3 and no idle gaps, the N chunks submitted so
\* far never trigger more than ceil(N/3) dispatches, and once nothing is
\* pending any more they have triggered exactly ceil(N/3).
C6_CeilDispatches ==
    \A h \in Objects :
        LET N == heap[h].chunkIndex
        IN /\ dispatches[h] <= CeilDiv(N, heap[h].options.batchSize)
           /\ (conversions = {} /\ batches = {})
                 => dispatches[h] = CeilDiv(N, heap[h].options.batchSize)

\* C7 as stated: in the scenario the chunks at 0,10,20 (positions 1,2,3) go out
\* together as batch A as soon as the third is queued, those at 30,40,50
\* (positions 4,5,6) together as batch B as soon as the sixth is queued, and
\* the chunk at 60 (position 7) alone; no other batch is ever formed.
C7_ScenarioBatches ==
    \A h \in Objects :
        /\ \A b \in InFlight(h) :
              b.chunks \in { << 1, 2, 3 >>, << 4, 5, 6 >>, << 7 >> }
        /\ Len(heap[h].chunks) >= 3 => dispatches[h] >= 1
        /\ Len(heap[h].chunks) >= 6 => dispatches[h] >= 2
\* C11: a step in which a pending conversion ends without its chunk being
\* queued, the process surviving, rejects the call to its caller, leaves
\* every session object (chunks, queue, workers), the batches in flight and
\* the dispatch counts as they were, and keeps the registry as it was.
C11_ConversionFailure ==
    [][ \A c \in conversions :
          ( /\ c \notin conversions'
            /\ ~crashed'
            /\ ~(ret'.op = "processAudioChunk" /\ ret'.outcome = "queued") ) =>
              /\ ret' = Settle("processAudioChunk", c.sid, c.sess, "rejected")
              /\ heap' = heap
              /\ batches' = batches
              /\ dispatches' = dispatches
              /\ activeSessions' = activeSessions ]_vars

\* C11 witness: a conversion was rejected for a registered session that has
\* a chunk waiting in its queue and a free slot
C11_Witness ==
    /\ ret.op = "processAudioChunk"
    /\ ret.outcome = "rejected"
    /\ activeSessions[ret.sid] = ret.obj
    /\ Len(heap[ret.obj].processingQueue) > 0
    /\ HasFreeWorker(heap[ret.obj])
\* the batches (by session object and chunks) that this step completes
SucceededNow(b) ==
    /\ b \in batches
    /\ \A x \in batches' : ~(x.sess = b.sess /\ x.chunks = b.chunks)
    /\ \A p \in Range(b.chunks) : heap'[b.sess].chunks[p].status = "processed"

\* C12: a step that completes a batch issues one notification, for the id of
\* the batch, whose segments are those the step appended to the batch's
\* session, each once; any other step, a failing batch included, issues none.
C12_OneNotificationPerBatch ==
    [][ /\ \A b \in batches :
              SucceededNow(b) =>
                 /\ Len(emitted') = 1
                 /\ emitted'[1].sessionId = b.sid
                 /\ Range(emitted'[1].subtitles) = appended'[b.sess] \ appended[b.sess]
                 /\ Len(emitted'[1].subtitles)
                       = Cardinality(appended'[b.sess] \ appended[b.sess])
        /\ (\A b \in batches : ~SucceededNow(b)) => emitted' = << >> ]_vars

\* C12 witness: a notification with a segment for a session that also
\* had a batch fail
C12_Witness ==
    /\ Len(emitted) = 1
    /\ Len(emitted[1].subtitles) >= 1
    /\ \E h \in Objects :
          /\ heap[h].id = emitted[1].sessionId
          /\ \E i \in 1 .. Len(heap[h].chunks) : heap[h].chunks[i].status = "failed"
          /\ \E i \in 1 .. Len(heap[h].chunks) : heap[h].chunks[i].status = "processed"
\* a timing line followed by text before the next timing line
HasCue(lines) ==
    \E i \in 1 .. Len(lines) :
        /\ lines[i].kind = "timing"
        /\ \E j \in i + 1 .. Len(lines) :
              /\ lines[j].kind = "text"
              /\ \A k \in i + 1 .. j - 1 : lines[k].kind # "timing"

\* C13 as stated: whatever the Transcription Service returned, the parser
\* raises nothing and returns a list, the empty list when the input holds
\* no cue.
C13_ParserNeverRaises ==
    ret.op \in {"parseVttContent", "transcribeAudio"} =>
        /\ ret.outcome = "ok"
        /\ ~HasCue(ret.arg.lines) => ret.value = << >>
\* C14 as stated: among the results appended to the subtitles of a session
\* (each is emitted as subtitle:new when it is appended) no two fall into
\* the same 5-second bucket.
C14_OneResultPerWindow ==
    \A sid \in DOMAIN sessions :
        \A i, j \in 1 .. Len(sessions[sid]) :
            i # j => sessions[sid][i].timestamp \div BucketMs
                       # sessions[sid][j].timestamp \div BucketMs
\* C16 as stated: a key stays in subtitleQueue only while the request that
\* set it is outstanding.
C16_ClaimReleased ==
    \A queueKey \in subtitleQueue : \E r \in requests : r.queueKey = queueKey
\* C15 as stated: a step in which a batch fails leaves no rejection
\* unhandled, does not end the process, keeps the registry as it was and
\* keeps every other batch in flight as it was.
C15_FailureIsolated ==
    [][ \A b \in batches :
          FailedNow(b) =>
             /\ unhandled' = 0
             /\ ~crashed'
             /\ activeSessions' = activeSessions
             /\ \A x \in batches \ {b} : x \in batches' ]_vars
\* C17: while the process runs, the activeWorkers of every session object
\* is the number of its batches in flight (dispatched, and neither completed
\* nor failed yet), hence never negative and never above the number of
\* batches dispatched for it.
C17_SlotHeldWhileInFlight ==
    ~crashed =>
        \A h \in Objects :
            /\ heap[h].activeWorkers = Cardinality(InFlight(h))
            /\ heap[h].activeWorkers >= 0
            /\ heap[h].activeWorkers <= dispatches[h]

\* C17 witness: of three batches dispatched for a session one failed, one
\* completed and one holds a slot
C17_Witness ==
    \E h \in Objects :
        /\ ~crashed
        /\ heap[h].activeWorkers = 1
        /\ dispatches[h] = 2
        /\ \E i \in 1 .. Len(heap[h].chunks) : heap[h].chunks[i].status = "failed"
        /\ \E i \in 1 .. Len(heap[h].chunks) : heap[h].chunks[i].status = "processing"

\* C18: a batch that leaves the pipeline at the transcription without
\* completing has every chunk marked failed; a failed chunk stays failed,
\* is in no processing queue and in no batch in flight.
C18_FailedNeverRetried ==
    [][ /\ \A b \in batches :
              ( /\ b.phase = "transcribing"
                /\ \A x \in batches' : ~(x.sess = b.sess /\ x.chunks = b.chunks)
                /\ ~SucceededNow(b) ) =>
                  \A p \in Range(b.chunks) : heap'[b.sess].chunks[p].status = "failed"
        /\ \A h \in Objects : \A p \in 1 .. Len(heap[h].chunks) :
              heap[h].chunks[p].status = "failed" =>
                 /\ heap'[h].chunks[p].status = "failed"
                 /\ p \notin Range(heap'[h].processingQueue)
                 /\ \A x \in batches' : x.sess = h => p \notin Range(x.chunks) ]_vars

\* C18 witness: a chunk failed at the transcription, and a chunk queued
\* after it was dispatched and processed
C18_Witness ==
    \E h \in Objects :
        /\ Len(heap[h].chunks) = 2
        /\ heap[h].chunks[1].status = "failed"
        /\ heap[h].chunks[2].status = "processed"
        /\ Len(heap[h].subtitles) > 0

\* C19 as stated: of two chunks of a session submitted in the order of their
\* timestamps, the later one is never dispatched while the earlier one is
\* still being converted or waits in the queue.
C19_FifoByTimestamp ==
    \A h \in Objects : \A j \in 1 .. Len(heap[h].chunks) :
        heap[h].chunks[j].status # "queued" =>
            /\ \A c \in conversions :
                  (c.sess = h /\ c.index < heap[h].chunks[j].index)
                     => c.timestamp >= heap[h].chunks[j].timestamp
            /\ \A i \in Range(heap[h].processingQueue) :
                  heap[h].chunks[i].index < heap[h].chunks[j].index
                     => heap[h].chunks[i].timestamp >= heap[h].chunks[j].timestamp
\* C20: every batch in flight holds at least one and at most batchSize
\* chunks, each once, in ascending order of timestamp, and each of them was
\* queued before every chunk that still waits in the queue.
C20_BatchShape ==
    \A h \in Objects : \A b \in InFlight(h) :
        /\ Len(b.chunks) >= 1
        /\ Len(b.chunks) <= heap[h].options.batchSize
        /\ \A i, j \in 1 .. Len(b.chunks) :
              i < j => /\ b.chunks[i] # b.chunks[j]
                       /\ heap[h].chunks[b.chunks[i]].timestamp
                             <= heap[h].chunks[b.chunks[j]].timestamp
        /\ \A p \in Range(b.chunks) : \A q \in Range(heap[h].processingQueue) : p < q

\* C20 witness: a full batch in flight whose chunks the sort has put in
\* another order than the queue had them, while a chunk waits in the queue
C20_Witness ==
    \E h \in Objects : \E b \in InFlight(h) :
        /\ Len(b.chunks) = heap[h].options.batchSize
        /\ Len(b.chunks) = 2
        /\ b.chunks[1] > b.chunks[2]
        /\ Len(heap[h].processingQueue) > 0
\* C21: a chunk is in a batch in flight exactly while its status is
\* processing, in at most one of them, and then not in the queue; it enters a
\* batch only from the queue, with status queued, and never has status queued
\* again afterwards; and every batch formed is one more processBatch call
\* and one more worker slot taken.
C21_OneBatchPerChunk ==
    [][ ~crashed' =>
          \A h \in Objects :
            LET new == { x \in batches' :
                           /\ x.sess = h
                           /\ \A y \in batches : y.chunks # x.chunks \/ y.sess # h }
            IN /\ \A x, y \in InFlight(h)' :
                     x # y => Range(x.chunks) \cap Range(y.chunks) = {}
               /\ \A p \in 1 .. Len(heap'[h].chunks) :
                     /\ (heap'[h].chunks[p].status = "processing")
                           <=> (\E x \in InFlight(h)' : p \in Range(x.chunks))
                     /\ (heap'[h].chunks[p].status = "queued")
                           <=> (p \in Range(heap'[h].processingQueue))
               /\ \A p \in 1 .. Len(heap[h].chunks) :
                     heap[h].chunks[p].status # "queued"
                        => /\ heap'[h].chunks[p].status # "queued"
                           /\ \A x \in new : p \notin Range(x.chunks)
               /\ dispatches'[h] = dispatches[h] + Cardinality(new)
               /\ heap'[h].activeWorkers
                     = heap[h].activeWorkers + Cardinality(new)
                         - Cardinality({ x \in InFlight(h) :
                                           \A y \in batches' : y.chunks # x.chunks \/ y.sess # h })
    ]_vars

\* C21 witness: four chunks of a session went out in three batches, of
\* which one is still in flight
C21_Witness ==
    \E h \in Objects :
        /\ dispatches[h] = 3
        /\ Len(heap[h].chunks) = 4
        /\ heap[h].processingQueue = << >>
        /\ Cardinality(InFlight(h)) = 1
        /\ ~crashed
\* C22 as stated: of two chunk records of a session the one with the larger
\* index has the strictly larger timestamp.
C22_TimestampsIncrease ==
    \A h \in Objects : \A i, j \in 1 .. Len(heap[h].chunks) :
        heap[h].chunks[i].index < heap[h].chunks[j].index
           => heap[h].chunks[i].timestamp < heap[h].chunks[j].timestamp
\* C23 as stated, for a session whose chunk k is submitted at time
\* k * chunkDuration with that timestamp: a step dispatches a batch only if
\* at least batchSize chunks are pending at that moment, or more than
\* 2 * chunkDuration have passed since the last dispatch (which cannot lie
\* before the timestamp of any chunk it dispatched; the start, if there was
\* none).
C23_DispatchOnlyOnTrigger ==
    [][ \A h \in Objects :
          LET s == heap[h]
              new == { x \in batches' :
                         /\ x.sess = h
                         /\ \A y \in batches : y.chunks # x.chunks \/ y.sess # h }
              pending == Len(s.processingQueue) + Len(heap'[h].chunks) - Len(s.chunks)
              current == s.options.chunkDuration * (s.chunkIndex - 1)
              dispatched == { s.chunks[p].timestamp :
                                p \in { q \in 1 .. Len(s.chunks) : s.chunks[q].status # "queued" } }
              lastDispatch == IF dispatched = {} THEN 0 ELSE MaxOf(dispatched)
          IN new # {} =>
                \/ pending >= s.options.batchSize
                \/ current - lastDispatch > 2 * s.options.chunkDuration ]_vars
\* a chunk at position p of the session waits in the queue while a batch of
\* the session is in flight
PendingBehindBatch(p) ==
    /\ ~crashed
    /\ heap # << >>
    /\ p \in Range(heap[1].processingQueue)
    /\ InFlight(1) # {}

\* the chunk at position p of the session has been taken off the queue
WasDispatched(p) ==
    /\ heap # << >>
    /\ p <= Len(heap[1].chunks)
    /\ heap[1].chunks[p].status # "queued"

\* C24: if every batch in flight comes to an end, a chunk that waits in the
\* queue while a batch of its session is in flight is dispatched later on
\* (or the process has ended).
C24_PendingIsDispatched ==
    \A p \in 1 .. DrainChunks :
        PendingBehindBatch(p) ~> (crashed \/ WasDispatched(p))

\* C24 witness: two chunks wait behind the batch that holds the only slot
C24_Witness ==
    /\ PendingBehindBatch(3)
    /\ PendingBehindBatch(4)
    /\ heap[1].activeWorkers = heap[1].options.maxWorkers
\* chunks wait in the queue of session object h while, for its id, no
\* conversion is pending and no batch is in flight
Stalled(h) ==
    /\ heap[h].processingQueue # << >>
    /\ \A c \in conversions : c.sid # heap[h].id
    /\ \A b \in batches : b.sid # heap[h].id

\* C25: while no further chunk is submitted for its id, a session object
\* whose chunks wait with no conversion pending and no batch in flight keeps
\* them: in every such step, the passing of time and endSession included, the
\* queue stays as it is, its chunks keep status queued and no batch is formed.
C25_PartialBatchStalls ==
    [][ \A h \in Objects :
          ( /\ Stalled(h)
            /\ \A c \in conversions' : c \in conversions \/ c.sid # heap[h].id ) =>
              /\ Stalled(h)'
              /\ heap'[h].processingQueue = heap[h].processingQueue
              /\ \A p \in Range(heap[h].processingQueue) :
                    heap'[h].chunks[p].status = "queued"
              /\ dispatches'[h] = dispatches[h] ]_vars

\* C25 witness: a chunk waits in a registered session with a free slot,
\* nothing else is going on, and the clock has moved on
C25_Witness ==
    \E h \in Objects :
        /\ Stalled(h)
        /\ activeSessions[heap[h].id] = h
        /\ HasFreeWorker(heap[h])
        /\ conversions = {}
        /\ batches = {}
        /\ now = MaxNow
        /\ ~crashed
\* C26 as stated: once endSession has returned for a session object, no
\* step appends a segment to its subtitles and no step issues a notification
\* for a batch of it.
C26_SnapshotIsFinal ==
    [][ \A h \in ended :
          /\ heap'[h].subtitles = heap[h].subtitles
          /\ appended'[h] = appended[h]
          /\ \A b \in InFlight(h) : SucceededNow(b) => emitted' = << >> ]_vars

\* C27 as stated: once endSession has returned for a session object, each
\* of its chunks has status processed or failed.
C27_NoChunkLeftOpen ==
    \A h \in ended : \A p \in 1 .. Len(heap[h].chunks) :
        heap[h].chunks[p].status \in {"processed", "failed"}
\* the files a batch consumed and produced: the files of its chunks, its
\* merged file and its file list
ArtifactsOf(b) ==
    { heap[b.sess].chunks[p].filename : p \in Range(b.chunks) } \cup {b.merged, b.fileList}

\* C28 as stated: a step that ends a batch, in success or in failure, leaves
\* none of the batch's chunk files and neither its merged file nor its file
\* list behind.
C28_ArtifactsGoneAtBatchEnd ==
    [][ \A b \in batches :
          (SucceededNow(b) \/ FailedNow(b)) => ArtifactsOf(b) \cap files' = {} ]_vars

\* C29 as stated: no two conversions in progress write the same input file,
\* and no two batches in flight use the same file list or the same merged file.
C29_NoSharedArtifact ==
    /\ \A c, d \in conversions : c # d => c.input # d.input /\ c.filename # d.filename
    /\ \A a, b \in batches :
          (a.sess # b.sess \/ a.chunks # b.chunks) =>
              a.fileList # b.fileList /\ a.merged # b.merged
\* the segments of a document read as blank-line-delimited blocks: a blank
\* line ends the block, so the lines after it up to the next timing line
\* belong to no cue
RECURSIVE BlockSegments(_, _, _, _)
BlockSegments(lines, i, subtitles, currentSubtitle) ==
    IF i > Len(lines) THEN PushCurrent(subtitles, currentSubtitle)
    ELSE LET line == lines[i]
         IN IF line.kind = "header"
            THEN BlockSegments(lines, i + 1, subtitles, currentSubtitle)
            ELSE IF line.kind = "blank"
            THEN BlockSegments(lines, i + 1, PushCurrent(subtitles, currentSubtitle), << >>)
            ELSE IF line.kind = "timing"
            THEN BlockSegments(lines, i + 1, PushCurrent(subtitles, currentSubtitle),
                               << [ start |-> TimestampToSeconds(line.from),
                                    end |-> TimestampToSeconds(line.to),
                                    text |-> << >> ] >>)
            ELSE IF currentSubtitle # << >>
            THEN BlockSegments(lines, i + 1, subtitles,
                               << [ currentSubtitle[1] EXCEPT !.text = Append(@, line.text) ] >>)
            ELSE BlockSegments(lines, i + 1, subtitles, currentSubtitle)

\* C30 as stated: the parser returns one segment per block that has a timing
\* line and a text line, in document order, the text of each being the text
\* lines of its own block.
C30_BlockDelimited ==
    (ret.op = "parseVttContent" /\ ret.outcome = "ok") =>
        ret.value = BlockSegments(ret.arg.lines, 1, << >>, << >>)
\* the smallest timestamp among the chunks of a batch
BaseOffset(b) ==
    CHOOSE t \in { heap[b.sess].chunks[p].timestamp : p \in Range(b.chunks) } :
        \A p \in Range(b.chunks) : t <= heap[b.sess].chunks[p].timestamp

\* C31: every segment that a completing batch appends is a cue of the
\* transcript with start and end moved by the smallest timestamp among the
\* batch's chunks, its text as parsed.
C31_ShiftedByBaseOffset ==
    [][ \A b \in batches :
          SucceededNow(b) =>
              \A seg \in appended'[b.sess] \ appended[b.sess] :
                  \E cues \in Transcripts : \E i \in 1 .. Len(cues) :
                      /\ seg.start = cues[i].start + BaseOffset(b)
                      /\ seg.end = cues[i].end + BaseOffset(b)
                      /\ seg.text = cues[i].text ]_vars

\* a batch in which a chunk with a later timestamp stood before one with an
\* earlier timestamp has just completed with the cue that starts at 2: the
\* segment starts at the earlier timestamp plus 2, and lastProcessedTime is
\* the later timestamp
C31_Witness ==
    \E h \in Objects : \E p, q \in 1 .. Len(heap[h].chunks) :
        /\ p < q
        /\ heap[h].chunks[p].timestamp > heap[h].chunks[q].timestamp
        /\ heap[h].chunks[p].status = "processed"
        /\ heap[h].chunks[q].status = "processed"
        /\ heap[h].lastProcessedTime = heap[h].chunks[p].timestamp
        /\ emitted # << >>
        /\ emitted[1].sessionId = heap[h].id
        /\ Len(emitted[1].subtitles) = 1
        /\ emitted[1].subtitles[1].start = heap[h].chunks[q].timestamp + 2
        /\ emitted[1].subtitles[1].text = "world"
\* C32 as stated: a history never holds more than the limit, and an entry that
\* a step drops from a history has a timestamp no later than that of any
\* entry the step keeps.
C32_EvictsByStart ==
    [][ \A sid \in DOMAIN sessions :
          /\ Len(sessions'[sid]) <= HistoryKept
          /\ \A x \in Range(sessions[sid]) \ Range(sessions'[sid]) :
                \A y \in Range(sessions'[sid]) : x.timestamp <= y.timestamp ]_vars
\* C33 as stated: a registered session whose caller sends no more chunks and
\* never calls endSession is in the end removed from activeSessions (unless
\* the process has ended before).
C33_IdleSessionRemoved ==
    \A sid \in SessionIds :
        (activeSessions[sid] # 0) ~> (activeSessions[sid] = 0 \/ crashed)
\* C34 as stated: the index of every chunk record is the counter value in the
\* name of its file, and no two chunk records of a session object carry the
\* same index.
C34_IndexUnique ==
    \A h \in Objects : \A p, q \in 1 .. Len(heap[h].chunks) :
        /\ heap[h].chunks[p].index = heap[h].chunks[p].filename[3]
        /\ p # q => heap[h].chunks[p].index # heap[h].chunks[q].index
\* the positions in session.chunks of the records with status queued
QueuedChunks(h) == { p \in 1 .. Len(heap[h].chunks) : heap[h].chunks[p].status = "queued" }

\* C35: the processingQueue of every session object holds the chunk records
\* with status queued, each once, and nothing else; the queueLength that
\* processAudioChunk resolves with is their number.
C35_QueueHoldsQueued ==
    /\ \A h \in Objects :
          /\ Range(heap[h].processingQueue) = QueuedChunks(h)
          /\ Len(heap[h].processingQueue) = Cardinality(QueuedChunks(h))
    /\ (ret.op = "processAudioChunk" /\ ret.outcome = "queued") =>
          ret.value[1].queueLength = Cardinality(QueuedChunks(ret.obj))

\* processAudioChunk has resolved with one chunk waiting in the queue behind
\* a chunk that is being processed
C35_Witness ==
    /\ ret.op = "processAudioChunk"
    /\ ret.outcome = "queued"
    /\ ret.value[1].queueLength = 1
    /\ ret.value[1].totalChunks = 2
    /\ activeSessions[ret.sid] = ret.obj
    /\ \E p \in 1 .. 2 : heap[ret.obj].chunks[p].status = "processing"
\* C36 as stated: a step in which initSession is called with an id that is
\* registered (a session object is created while the id stays registered)
\* leaves the id's chunks, processingQueue, subtitles and activeWorkers as
\* they were.
C36_ReinitPreserves ==
    [][ \A sid \in SessionIds :
          (Len(heap') > Len(heap) /\ activeSessions[sid] # 0 /\ activeSessions'[sid] # 0) =>
              /\ heap'[activeSessions'[sid]].chunks = heap[activeSessions[sid]].chunks
              /\ heap'[activeSessions'[sid]].processingQueue
                    = heap[activeSessions[sid]].processingQueue
              /\ heap'[activeSessions'[sid]].subtitles = heap[activeSessions[sid]].subtitles
              /\ heap'[activeSessions'[sid]].activeWorkers
                    = heap[activeSessions[sid]].activeWorkers ]_vars
\* the chunk at position p of the session is in a batch in flight
IsProcessing(p) ==
    /\ ~crashed
    /\ heap # << >>
    /\ p <= Len(heap[1].chunks)
    /\ heap[1].chunks[p].status = "processing"

\* the chunk at position p of the session is processed or failed
IsTerminal(p) ==
    /\ heap # << >>
    /\ p <= Len(heap[1].chunks)
    /\ heap[1].chunks[p].status \in {"processed", "failed"}

\* C37: if every batch in flight comes to an end, a chunk with status
\* processing becomes processed or failed later on (or the process has
\* ended), the session being ended meanwhile or not; and no step sets the
\* status of a chunk that has left the queue back to queued.
C37_DispatchedTerminates ==
    /\ [][ \A h \in Objects : \A p \in 1 .. Len(heap[h].chunks) :
              heap[h].chunks[p].status # "queued" => heap'[h].chunks[p].status # "queued" ]_vars
    /\ \A p \in 1 .. CloseChunks : IsProcessing(p) ~> (crashed \/ IsTerminal(p))

\* C37 witness: the session has been ended while a batch of it is in flight
C37_Witness ==
    /\ 1 \in ended
    /\ InFlight(1) # {}
    /\ \E p \in 1 .. CloseChunks : IsProcessing(p)
\* C38 as stated: no step lowers the lastProcessedTime of a session object.
C38_LastProcessedTimeMonotonic ==
    [][ \A h \in Objects :
          heap'[h].lastProcessedTime >= heap[h].lastProcessedTime ]_vars
\* the positions of the participants of a session that have role host
Hosts(sessionId) ==
    { i \in 1 .. Len(sharedSessions[sessionId].participants) :
        sharedSessions[sessionId].participants[i].role = "host" }

\* C39: every session of SharedViewingService has one participant with role
\* host, and that participant is the session's hostUserId.
C39_OneHost ==
    \A sessionId \in DOMAIN sharedSessions :
        /\ Cardinality(Hosts(sessionId)) = 1
        /\ \A i \in Hosts(sessionId) :
              sharedSessions[sessionId].participants[i].userId
                 = sharedSessions[sessionId].hostUserId

\* C39 witness: the host has left a session of three, and the host now is a
\* participant who joined after the session was created
C39_Witness ==
    /\ ret.op = "leaveSession"
    /\ ret.outcome = "true"
    /\ \E sessionId \in DOMAIN sharedSessions :
          /\ Len(sharedSessions[sessionId].participants) = 2
          /\ \A i \in 1 .. 2 : sharedSessions[sessionId].participants[i].userId # ret.arg
          /\ \E i \in Hosts(sessionId) :
                sharedSessions[sessionId].participants[i].joinedAt
                   > sharedSessions[sessionId].createdAt
====
